---- MODULE Spec2Model ----
(***************************************************************************)
(* simscrape, modules/pdfvector: the build pipeline of processor.py        *)
(* (extract -> split -> embed -> create_faiss_db, which pickles the index  *)
(* and the chunk array to DB_FILE) and the query path of query.py          *)
(* (load_vector_db -> encode -> index.search -> score/filter).             *)
(* Further down: the text splitter behind split_text, the session         *)
(* lifecycle of common/crawler.py, the main coroutine of                   *)
(* modules/webdiff/diff.py and get_sitemap_urls of common/sitemap.py, each *)
(* with a specification of its own (SpecOrder, SpecSplit, SpecCrawler,     *)
(* SpecWebdiff, SpecSitemap) over its own variable.                        *)
(*                                                                         *)
(* Numbers.  Vector coordinates are fixed-point tenths (<<9, 1>> is        *)
(* [0.9, 0.1]); a squared L2 distance is then in hundredths, and a score   *)
(* 1 - d/2 is kept in two-hundredths: score = ScoreOne - d, ScoreOne = 200 *)
(* standing for 1.0.  A min_score is in the same unit (100 is 0.5).        *)
(***************************************************************************)
EXTENDS Integers, Sequences, FiniteSets, TLC

VARIABLES
    fileExists,  \* DB_FILE exists (processor.py:22, query.py:21)
    fileBytes,   \* the contents of DB_FILE, as written so far
    fileOrigin,  \* the call whose open(DB_FILE, "wb") made the current file
    build,       \* the processor.py run in progress or last ended
    lastQuery,   \* the query_faiss call made in the step before, if any
    runs,        \* the processor.main runs compared for their chunk ids
    split,       \* one split_text call: its arguments and its output
    crawler,     \* one AsyncWebCrawler: its session and the requests made
    webdiff,     \* one run of the webdiff main coroutine
    sitemap      \* one SitemapCrawler.get_sitemap_urls call and its site

pdfVars == <<fileExists, fileBytes, fileOrigin, build, lastQuery>>

\* what the pdfvector build and query steps leave alone
nonPdfVars == <<runs, split, crawler, webdiff, sitemap>>

vars == <<fileExists, fileBytes, fileOrigin, build, lastQuery,
          runs, split, crawler, webdiff, sitemap>>

(***************************************************************************)
(* Bounds and the values the inputs are drawn from.                        *)
(***************************************************************************)
MaxK == 4

\* 1.0 in score units (the constant 1 of "1 - (dist / 2)")
ScoreOne == 200

\* the distance faiss reports for a missing neighbour (FLT_MAX), as a
\* number far above every real distance of the model
FLT_MAX == 1000000

\* float("-inf") as a --min-score: below every score, also a padding one
NegInf == -2000000

Min(a, b) == IF a <= b THEN a ELSE b

\* the texts of the model: every page text is shorter than the chunk size
\* and holds no separator; "" is a page without text
QueryTexts == {"a", "q"}

\* SentenceTransformer.encode on one text: a fixed vector per text
Embedding(text) ==
    CASE text = "a" -> <<10, 0>>
      [] text = "b" -> <<0, 10>>
      [] text = "c" -> <<9, 1>>
      [] text = "q" -> <<5, 5>>
      [] OTHER      -> <<0, 0>>

\* directory entries of PDF_FOLDER and the page texts of each PDF
FileX == [stem |-> "x", ext |-> "pdf"]
FileY == [stem |-> "y", ext |-> "pdf"]
FileN == [stem |-> "n", ext |-> "txt"]
AllFiles == {FileX, FileY, FileN}

PagesOf(f) ==
    CASE f = FileX -> <<"a", "b">>
      [] f = FileY -> <<"c", "">>
      [] OTHER     -> <<>>

\* os.listdir: the entries of a folder in an arbitrary order
Listings(folder) ==
    {l \in [1..Cardinality(folder) -> folder] :
        \A i, j \in 1..Cardinality(folder) : i # j => l[i] # l[j]}

(***************************************************************************)
(* processor.py: the pipeline steps as pure functions.                     *)
(***************************************************************************)
EndsWithPdf(f) == f.ext = "pdf"

\* the rows one PDF contributes: one per page, page numbers from 1
PageItems(f) ==
    [p \in 1..Len(PagesOf(f)) |->
        [text |-> PagesOf(f)[p], metadata |-> [source |-> f, page |-> p]]]

RECURSIVE ExtractLoop(_)
ExtractLoop(listing) ==
    IF listing = <<>> THEN <<>>
    ELSE (IF EndsWithPdf(Head(listing)) THEN PageItems(Head(listing)) ELSE <<>>)
         \o ExtractLoop(Tail(listing))

extract_text_from_pdfs(listing) ==
    IF ~(\E i \in 1..Len(listing) : EndsWithPdf(listing[i])) THEN <<>>
    ELSE ExtractLoop(listing)

\* RecursiveCharacterTextSplitter.split_text on a text below the chunk size
SplitterSplitText(text) == IF text = "" THEN <<>> ELSE <<text>>

RECURSIVE split_text(_)
split_text(text_data) ==
    IF text_data = <<>> THEN <<>>
    ELSE LET item == Head(text_data)
             chunks == SplitterSplitText(item.text)
         IN  [i \in 1..Len(chunks) |->
                 [text |-> chunks[i], metadata |-> item.metadata]]
             \o split_text(Tail(text_data))

generate_embeddings(text_chunks) ==
    [i \in 1..Len(text_chunks) |-> Embedding(text_chunks[i].text)]

\* np.array(embeddings, dtype=np.float32) raises ValueError on rows of
\* different lengths
Ragged(embeddings) ==
    \E i, j \in 1..Len(embeddings) : Len(embeddings[i]) # Len(embeddings[j])

\* variant: ids counted from 1
arangeFromOne(n) == [i \in 1..n |-> i]

\* np.arange(n)
arange(n) == [i \in 1..n |-> i - 1]

\* IndexFlatL2(vector_dim) after add_with_ids(embeddings, ids)
NewIndex(embeddings) ==
    [d   |-> Len(embeddings[1]),
     ids |-> arange(Len(embeddings)),
     xb  |-> embeddings]

\* variant: rows of different lengths are not noticed
CreateErrorNoShapeCheck(embeddings, fault) ==
    CASE Len(embeddings) = 0      -> "IndexError"
      [] fault = "add_with_ids"   -> "RuntimeError"
      [] OTHER                    -> "none"

\* the error create_faiss_db raises before it opens DB_FILE, or "none"
CreateError(embeddings, fault) ==
    CASE Ragged(embeddings)       -> "ValueError"
      [] Len(embeddings) = 0      -> "IndexError"
      [] fault = "add_with_ids"   -> "RuntimeError"
      [] OTHER                    -> "none"

(***************************************************************************)
(* pickle: the artifact as a stream of tokens <<kind, value>>.             *)
(***************************************************************************)
Dump(db) ==
    <<<<"dict", 2>>, <<"key", "index">>,
      <<"d", db.index.d>>, <<"ntotal", Len(db.index.ids)>>>>
    \o [i \in 1..Len(db.index.ids) |-> <<"id", db.index.ids[i]>>]
    \o [i \in 1..Len(db.index.xb) |-> <<"vec", db.index.xb[i]>>]
    \o <<<<"key", "text_chunks">>, <<"list", Len(db.text_chunks)>>>>
    \o [i \in 1..Len(db.text_chunks) |-> <<"item", db.text_chunks[i]>>]
    \o <<<<"stop", 0>>>>

NoDb == [index |-> [d |-> 0, ids |-> <<>>, xb |-> <<>>], text_chunks |-> <<>>]

\* pickle.load: the object of a complete stream, an error on anything else
Unpickle(bytes) ==
    IF Len(bytes) < 4 \/ bytes[1][1] # "dict" \/ bytes[2][1] # "key"
       \/ bytes[3][1] # "d" \/ bytes[4][1] # "ntotal"
    THEN [ok |-> FALSE, db |-> NoDb]
    ELSE
      LET n == bytes[4][2] IN
      IF Len(bytes) < 6 + 2 * n
         \/ (\E i \in 1..n : bytes[4 + i][1] # "id")
         \/ (\E i \in 1..n : bytes[4 + n + i][1] # "vec")
         \/ bytes[5 + 2 * n][1] # "key" \/ bytes[6 + 2 * n][1] # "list"
      THEN [ok |-> FALSE, db |-> NoDb]
      ELSE
        LET m == bytes[6 + 2 * n][2] IN
        IF Len(bytes) # 7 + 2 * n + m
           \/ (\E i \in 1..m : bytes[6 + 2 * n + i][1] # "item")
           \/ bytes[7 + 2 * n + m][1] # "stop"
        THEN [ok |-> FALSE, db |-> NoDb]
        ELSE [ok |-> TRUE,
              db |-> [index |-> [d   |-> bytes[3][2],
                                 ids |-> [i \in 1..n |-> bytes[4 + i][2]],
                                 xb  |-> [i \in 1..n |-> bytes[4 + n + i][2]]],
                      text_chunks |-> [i \in 1..m |-> bytes[6 + 2 * n + i][2]]]]

(***************************************************************************)
(* faiss IndexFlatL2.search and the scoring loop of query_faiss.           *)
(***************************************************************************)
RECURSIVE L2sqr(_, _)
L2sqr(x, y) ==
    IF x = <<>> \/ y = <<>> THEN 0
    ELSE (Head(x) - Head(y)) * (Head(x) - Head(y)) + L2sqr(Tail(x), Tail(y))

\* position p is reported before position r: nearer first, and of two
\* equally near vectors the one stored first
Nearer(index, x, p, r) ==
    \/ L2sqr(x, index.xb[p]) < L2sqr(x, index.xb[r])
    \/ L2sqr(x, index.xb[p]) = L2sqr(x, index.xb[r]) /\ p < r

RECURSIVE SortedPositions(_, _, _)
SortedPositions(index, x, S) ==
    IF S = {} THEN <<>>
    ELSE LET p == CHOOSE c \in S : \A r \in S \ {c} : Nearer(index, x, c, r)
         IN  <<p>> \o SortedPositions(index, x, S \ {p})

\* distances, indices = index.search(x, k) for one query vector: always k
\* entries, the stored vectors nearest first, then (FLT_MAX, -1) padding
Search(index, x, k) ==
    LET n     == Len(index.xb)
        order == SortedPositions(index, x, 1..n)
    IN  [D |-> [i \in 1..k |-> IF i <= n THEN L2sqr(x, index.xb[order[i]])
                                        ELSE FLT_MAX],
         I |-> [i \in 1..k |-> IF i <= n THEN index.ids[order[i]] ELSE -1]]

\* the assertions of the search wrapper: the query has the index's
\* dimension and k is positive
SearchAsserts(index, x, k) == Len(x) = index.d /\ k > 0

\* variant: the sign of the distance term slipped
ScoreOfSignSlip(dist) == ScoreOne + dist

\* variant: the distance is not halved
ScoreOfNoHalving(dist) == ScoreOne - 2 * dist

\* score = 1 - (dist / 2)
ScoreOf(dist) == ScoreOne - dist

\* score >= min_score
ScorePasses(score, min_score) == min_score = NegInf \/ score >= min_score

\* text_chunks[idx] is defined: Python counts a negative idx from the end
Indexable(text_chunks, idx) ==
    -Len(text_chunks) <= idx /\ idx < Len(text_chunks)

PyIndex(text_chunks, idx) ==
    IF idx >= 0 THEN text_chunks[idx + 1]
    ELSE text_chunks[Len(text_chunks) + idx + 1]

\* the for loop of query_faiss from entry i on: the results appended to
\* acc, or the IndexError of the first text_chunks[idx] that is out of range
RECURSIVE ScoreLoop(_, _, _, _, _, _)
ScoreLoop(D, I, text_chunks, min_score, i, acc) ==
    IF i > Len(D) THEN [error |-> "none", results |-> acc]
    ELSE IF ~ScorePasses(ScoreOf(D[i]), min_score)
         THEN ScoreLoop(D, I, text_chunks, min_score, i + 1, acc)
    ELSE IF ~Indexable(text_chunks, I[i])
         THEN [error |-> "IndexError", results |-> <<>>]
    ELSE ScoreLoop(D, I, text_chunks, min_score, i + 1,
                   Append(acc, [text     |-> PyIndex(text_chunks, I[i]).text,
                                metadata |-> PyIndex(text_chunks, I[i]).metadata,
                                score    |-> ScoreOf(D[i])]))

NoSearch == [D |-> <<>>, I |-> <<>>]

\* load_vector_db: what it hands back, or the reason of its sys.exit(1)
LoadVectorDb ==
    IF ~fileExists THEN [load |-> "notfound", db |-> NoDb]
    ELSE IF ~Unpickle(fileBytes).ok THEN [load |-> "corrupt", db |-> NoDb]
    ELSE [load |-> "ok", db |-> Unpickle(fileBytes).db]

\* what a load started now reads from DB_FILE
Observed ==
    CASE ~fileExists                                         -> "absent"
      [] build.status = "writing" /\ fileBytes # build.buf   -> "half-written"
      [] OTHER                                               -> "complete"

\* query_faiss(query, min_score, max_results), run to its end
QueryFaiss(query, min_score, max_results) ==
    LET ld    == LoadVectorDb
        base  == [ran |-> TRUE, query |-> query, min_score |-> min_score,
                  max_results |-> max_results, load |-> ld.load,
                  observed |-> Observed, origin |-> fileOrigin,
                  index |-> ld.db.index, text_chunks |-> ld.db.text_chunks]
        x     == Embedding(query)
    IN  IF ld.load # "ok"
        THEN base @@
             [embedded |-> FALSE, searched |-> FALSE, found |-> NoSearch,
              outcome |-> "exit", error |-> "SystemExit", results |-> <<>>]
        ELSE IF ~SearchAsserts(ld.db.index, x, max_results)
        THEN base @@
             [embedded |-> TRUE, searched |-> FALSE, found |-> NoSearch,
              outcome |-> "raise", error |-> "AssertionError", results |-> <<>>]
        ELSE
          LET found == Search(ld.db.index, x, max_results)
              loop  == ScoreLoop(found.D, found.I, ld.db.text_chunks,
                                 min_score, 1, <<>>)
          IN  base @@
              [embedded |-> TRUE, searched |-> TRUE, found |-> found,
               outcome |-> IF loop.error = "none" THEN "return" ELSE "raise",
               error |-> loop.error, results |-> loop.results]

(***************************************************************************)
(* State: DB_FILE on disk, the build run in progress or last finished, and *)
(* lastQuery, the query_faiss call made in the step that led to the state  *)
(* (NoQuery when that step was no query).                                  *)
(***************************************************************************)
MinScores == {NegInf, -ScoreOne, 100, 300}
MaxResults == 0..MaxK

ChunkA == [text |-> "a", metadata |-> [source |-> FileX, page |-> 1]]
ChunkB == [text |-> "b", metadata |-> [source |-> FileX, page |-> 2]]

\* arguments of a direct create_faiss_db(text_chunks, embeddings) call
DirectChunks == {<<>>, <<ChunkA>>, <<ChunkA, ChunkB>>}
DirectEmbeddings ==
    {<<>>, <<<<10, 0>>>>, <<<<10, 0>>, <<0, 10>>>>, <<<<1, 2, 3>>, <<1, 2>>>>}

NoBuild == [call |-> "none", status |-> "idle", error |-> "none",
            embeddings |-> <<>>, text_chunks |-> <<>>, buf |-> <<>>]

NoQuery == [ran |-> FALSE, query |-> "", min_score |-> 0, max_results |-> 0,
            load |-> "none", observed |-> "none", origin |-> "none",
            index |-> NoDb.index, text_chunks |-> <<>>,
            embedded |-> FALSE, searched |-> FALSE, found |-> NoSearch,
            outcome |-> "none", error |-> "none", results |-> <<>>]

(***************************************************************************)
(* The rest values of the parts of the repository that a specification     *)
(* does not exercise.                                                      *)
(***************************************************************************)
NoRuns == <<>>

NoSplit == [called |-> FALSE, text_data |-> <<>>, chunk_size |-> 1,
            chunk_overlap |-> 0, chunked_data |-> <<>>]

\* AsyncWebCrawler.__init__: no session; nothing opened, closed or
\* requested, no call made
NoCrawler == [session |-> 0, opened |-> 0, closed |-> {},
              requests |-> <<>>, history |-> <<>>]

\* webdiff main not started: no url handled, no file written, nothing
\* returned (ret -1)
NoWebdiff == [pc |-> "start", index |-> 1, outcomes |-> <<>>,
              files |-> {}, ret |-> -1]

\* no SitemapCrawler made
NoSitemap == [site |-> <<>>, robots |-> <<>>, called |-> FALSE,
              paths |-> <<>>, returned |-> {}]

\* no DB_FILE, no build run, no query made
PdfInit ==
    /\ fileExists = FALSE
    /\ fileBytes = <<>>
    /\ fileOrigin = "none"
    /\ build = NoBuild
    /\ lastQuery = NoQuery

Init ==
    /\ PdfInit
    /\ runs = NoRuns
    /\ split = NoSplit
    /\ crawler = NoCrawler
    /\ webdiff = NoWebdiff
    /\ sitemap = NoSitemap

\* variant: DB_FILE is opened for writing before the step that raises
FailedAfterOpen(call, error, embeddings) ==
    /\ build' = [call |-> call, status |-> "failed", error |-> error,
                 embeddings |-> embeddings, text_chunks |-> <<>>,
                 buf |-> <<>>]
    /\ fileExists' = TRUE
    /\ fileBytes' = <<>>
    /\ fileOrigin' = call
    /\ lastQuery' = NoQuery

\* a run that raised before DB_FILE was opened
Failed(call, error, embeddings) ==
    /\ build' = [call |-> call, status |-> "failed", error |-> error,
                 embeddings |-> embeddings, text_chunks |-> <<>>,
                 buf |-> <<>>]
    /\ UNCHANGED <<fileExists, fileBytes, fileOrigin>>
    /\ lastQuery' = NoQuery

\* create_faiss_db up to and including open(DB_FILE, "wb"), which creates
\* the file or truncates it to nothing
CreateFaissDb(call, text_chunks, embeddings, fault) ==
    IF CreateError(embeddings, fault) # "none"
    THEN Failed(call, CreateError(embeddings, fault), embeddings)
    ELSE /\ build' = [call |-> call, status |-> "writing", error |-> "none",
                      embeddings |-> embeddings, text_chunks |-> text_chunks,
                      buf |-> Dump([index |-> NewIndex(embeddings),
                                    text_chunks |-> text_chunks])]
         /\ fileExists' = TRUE
         /\ fileBytes' = <<>>
         /\ fileOrigin' = call
         /\ lastQuery' = NoQuery

\* processor.main over one directory listing; fault names the library call
\* that raises in this run, if any
Main(listing, fault) ==
    /\ build.status # "writing"
    /\ LET text_data   == extract_text_from_pdfs(listing)
           text_chunks == split_text(text_data)
           embeddings  == generate_embeddings(text_chunks)
       IN  CASE fault = "fitz" ->
                  /\ \E i \in 1..Len(listing) : EndsWithPdf(listing[i])
                  /\ Failed("main", "FileDataError", <<>>)
             [] fault = "encode" ->
                  Failed("main", "EmbeddingError", <<>>)
             [] OTHER ->
                  CreateFaissDb("main", text_chunks, embeddings, fault)
    /\ UNCHANGED nonPdfVars

\* create_faiss_db called with arguments of the caller's choosing
Create(text_chunks, embeddings, fault) ==
    /\ build.status # "writing"
    /\ CreateFaissDb("create_faiss_db", text_chunks, embeddings, fault)
    /\ UNCHANGED nonPdfVars

\* pickle.dump: the next piece of the stream reaches the file
Write ==
    /\ build.status = "writing"
    /\ Len(fileBytes) < Len(build.buf)
    /\ fileBytes' = Append(fileBytes, build.buf[Len(fileBytes) + 1])
    /\ lastQuery' = NoQuery
    /\ UNCHANGED <<fileExists, fileOrigin, build>>
    /\ UNCHANGED nonPdfVars

\* pickle.dump or a write raises: the with block closes the file as it is
WriteFail ==
    /\ build.status = "writing"
    /\ Len(fileBytes) < Len(build.buf)
    /\ build' = [build EXCEPT !.status = "failed", !.error = "OSError"]
    /\ lastQuery' = NoQuery
    /\ UNCHANGED <<fileExists, fileBytes, fileOrigin>>
    /\ UNCHANGED nonPdfVars

\* the with block ends after a complete dump
Close ==
    /\ build.status = "writing"
    /\ fileBytes = build.buf
    /\ build' = [build EXCEPT !.status = "ok"]
    /\ lastQuery' = NoQuery
    /\ UNCHANGED <<fileExists, fileBytes, fileOrigin>>
    /\ UNCHANGED nonPdfVars

\* one query_faiss call, possibly while a build is writing
Query(query, min_score, max_results) ==
    /\ lastQuery' = QueryFaiss(query, min_score, max_results)
    /\ UNCHANGED <<fileExists, fileBytes, fileOrigin, build>>
    /\ UNCHANGED nonPdfVars

Faults == {"none", "fitz", "encode", "add_with_ids"}

Next ==
    \/ \E folder \in SUBSET AllFiles : \E listing \in Listings(folder) :
         \E fault \in Faults : Main(listing, fault)
    \/ \E text_chunks \in DirectChunks : \E embeddings \in DirectEmbeddings :
         \E fault \in {"none", "add_with_ids"} :
           Create(text_chunks, embeddings, fault)
    \/ Write
    \/ WriteFail
    \/ Close
    \/ \E query \in QueryTexts : \E min_score \in MinScores :
         \E max_results \in MaxResults : Query(query, min_score, max_results)

Spec == Init /\ [][Next]_vars

(***************************************************************************)
(* Properties.                                                             *)
(***************************************************************************)
\* score >= min_score, for a min_score that may be -inf
AtLeast(score, min_score) == min_score = NegInf \/ score >= min_score

\* the index and the chunk array are aligned: ids 0..n-1, n chunks, and
\* the vector of id i is the embedding of chunk i
Aligned(index, text_chunks) ==
    /\ Len(index.ids) = Len(text_chunks)
    /\ Len(index.xb) = Len(text_chunks)
    /\ \A i \in 1..Len(text_chunks) :
         /\ index.ids[i] = i - 1
         /\ index.xb[i] = Embedding(text_chunks[i].text)

\* C1: a list returned by query_faiss has at most max_results entries,
\* every entry has score >= min_score, and the scores never increase from
\* one entry to the next.
C1_RankingContract ==
    lastQuery.outcome = "return" =>
      /\ Len(lastQuery.results) <= lastQuery.max_results
      /\ \A i \in 1..Len(lastQuery.results) :
           AtLeast(lastQuery.results[i].score, lastQuery.min_score)
      /\ \A i, j \in 1..Len(lastQuery.results) :
           i < j => lastQuery.results[i].score >= lastQuery.results[j].score

\* a query that returned two results of different score after the filter
\* dropped a candidate
C1_Witness ==
    /\ lastQuery.outcome = "return"
    /\ Len(lastQuery.results) = 2
    /\ lastQuery.results[1].score > lastQuery.results[2].score
    /\ Len(lastQuery.found.D) = 3
    /\ lastQuery.min_score = 100

\* C2: an artifact written by the build pipeline, once complete, and every
\* (index, chunks) pair loaded from it, has ids 0..n-1 for its n chunks and
\* under id i the embedding of chunk i; also when the build ran over an
\* earlier artifact.
C2_Alignment ==
    /\ (fileOrigin = "main" /\ Unpickle(fileBytes).ok) =>
          Aligned(Unpickle(fileBytes).db.index,
                  Unpickle(fileBytes).db.text_chunks)
    /\ (lastQuery.origin = "main" /\ lastQuery.load = "ok") =>
          Aligned(lastQuery.index, lastQuery.text_chunks)

\* a query loaded the three-chunk artifact of a finished pipeline run
C2_Witness ==
    /\ build.call = "main" /\ build.status = "ok"
    /\ lastQuery.origin = "main" /\ lastQuery.load = "ok"
    /\ Len(lastQuery.text_chunks) = 3
    /\ Len(lastQuery.index.ids) = 3

\* C3: no load observes a half-written artifact: what a query reads while
\* a build is writing is a complete artifact.
C3_NoHalfWrittenRead ==
    lastQuery.ran => lastQuery.observed # "half-written"

\* C4: a build ends complete, DB_FILE holding the whole artifact, or
\* failed with an error; a failing build step writes nothing to DB_FILE,
\* and after a build failed while writing, DB_FILE cannot be loaded: a
\* query on it ends in load_vector_db's exit and gets no index, empty or
\* partial.
C4_FailedBuildLeavesNothingLoadable ==
    [][/\ build'.status = "ok" =>
            fileExists' /\ fileBytes' = build'.buf /\ Unpickle(fileBytes').ok
       /\ build'.status = "failed" =>
            /\ build'.error # "none"
            /\ fileExists' = fileExists /\ fileBytes' = fileBytes
            /\ build'.error = "OSError" =>
                 /\ ~Unpickle(fileBytes').ok
                 /\ lastQuery'.ran =>
                      lastQuery'.outcome = "exit" /\ lastQuery'.results = <<>>]_vars

\* a query ran on the part of an artifact a failed write left behind
C4_Witness ==
    /\ build.status = "failed" /\ build.error = "OSError"
    /\ Len(fileBytes) > 4
    /\ lastQuery.ran /\ lastQuery.load = "corrupt" /\ lastQuery.outcome = "exit"

\* C5: create_faiss_db on vectors of different lengths fails with the
\* shape error of np.array and leaves DB_FILE as it was.
C5_RaggedBuildFails ==
    [][(build' # build /\ Ragged(build'.embeddings)) =>
         /\ build'.status = "failed" /\ build'.error = "ValueError"
         /\ fileExists' = fileExists /\ fileBytes' = fileBytes]_vars

\* the build of [1,2,3], [1,2] failed and no file exists
C5_Witness ==
    /\ build.status = "failed" /\ build.error = "ValueError"
    /\ build.embeddings = <<<<1, 2, 3>>, <<1, 2>>>>
    /\ ~fileExists

\* C6: a pipeline run over a corpus of no chunks, and so no vectors,
\* succeeds: it fails only when a library call of the run fails.
C6_EmptyBuildSucceeds ==
    (build.call = "main" /\ build.embeddings = <<>> /\ build.status = "failed")
      => build.error \in {"FileDataError", "EmbeddingError"}

\* C7: when DB_FILE is missing or unparseable, or holds an index whose
\* vector count differs from its chunk count, load_vector_db fails and
\* the query gives no results.
C7_LoadRejectsUnusable ==
    (lastQuery.ran /\ (\/ lastQuery.load \in {"notfound", "corrupt"}
                       \/ Len(lastQuery.index.xb) # Len(lastQuery.text_chunks)))
      => lastQuery.outcome = "exit" /\ lastQuery.results = <<>>

\* C8: a query with min_score outside [0,1] or max_results <= 0 is
\* rejected before DB_FILE is loaded, the query embedded or the index
\* searched.
C8_ArgumentsRejectedFirst ==
    (lastQuery.ran /\ (\/ lastQuery.min_score < 0
                       \/ lastQuery.min_score > ScoreOne
                       \/ lastQuery.max_results <= 0))
      => /\ lastQuery.outcome = "raise"
         /\ lastQuery.load = "none"
         /\ ~lastQuery.embedded
         /\ ~lastQuery.searched

\* C9: on the index of [1,0], [0,1], [0.9,0.1], the query of embedding
\* [1,0] with min_score 0.5 and max_results 3 returns chunk 0 with score
\* 1.0 (distance 0), then chunk 2 with score 0.99 (distance 0.02), and not
\* chunk 1 (distance 2).
C9_Scenario ==
    (/\ lastQuery.load = "ok"
     /\ lastQuery.index.xb = <<<<10, 0>>, <<0, 10>>, <<9, 1>>>>
     /\ lastQuery.index.ids = <<0, 1, 2>>
     /\ Len(lastQuery.text_chunks) = 3
     /\ Embedding(lastQuery.query) = <<10, 0>>
     /\ lastQuery.min_score = 100
     /\ lastQuery.max_results = 3)
      => /\ lastQuery.outcome = "return"
         /\ lastQuery.found.D = <<0, 2, 200>>
         /\ lastQuery.found.I = <<0, 2, 1>>
         /\ lastQuery.results =
              <<[text     |-> lastQuery.text_chunks[1].text,
                 metadata |-> lastQuery.text_chunks[1].metadata,
                 score    |-> ScoreOne],
                [text     |-> lastQuery.text_chunks[3].text,
                 metadata |-> lastQuery.text_chunks[3].metadata,
                 score    |-> ScoreOne - 2]>>

\* the scenario's query ran on the scenario's index
C9_Witness ==
    /\ lastQuery.load = "ok"
    /\ lastQuery.index.xb = <<<<10, 0>>, <<0, 10>>, <<9, 1>>>>
    /\ lastQuery.query = "a"
    /\ lastQuery.min_score = 100
    /\ lastQuery.max_results = 3
    /\ Len(lastQuery.results) = 2

\* C10: a search for k > 0 on n vectors gives min(k, n) pairs, each id in
\* 0..n-1, by ascending distance and, at equal distance, ascending id.
C10_SearchContract ==
    lastQuery.searched =>
      LET n == Len(lastQuery.index.xb)
          D == lastQuery.found.D
          I == lastQuery.found.I
      IN  /\ Len(I) = Min(lastQuery.max_results, n)
          /\ Len(D) = Len(I)
          /\ \A i \in 1..Len(I) : I[i] \in 0..(n - 1)
          /\ \A i, j \in 1..Len(I) :
               i < j => \/ D[i] < D[j]
                        \/ D[i] = D[j] /\ I[i] < I[j]

\* the artifact that load_vector_db gets from DB_FILE is the index and the
\* chunk array that the run saved
LoadsWhatWasSaved ==
    /\ fileExists
    /\ Unpickle(fileBytes).ok
    /\ Unpickle(fileBytes).db.index = NewIndex(build.embeddings)
    /\ Unpickle(fileBytes).db.text_chunks = build.text_chunks

\* C11: saving an index with its chunk array and loading the artifact
\* gives back the same vectors under the same ids and the same chunks in
\* the same order, for an index of some vectors and for the index of no
\* vectors: a run on no vectors saves too.
C11_RoundTrip ==
    /\ build.status = "ok" => LoadsWhatWasSaved
    /\ (build.status = "failed" /\ build.embeddings = <<>>)
          => build.error # "IndexError"

(***************************************************************************)
(* Build runs side by side: processor.main run more than once, each run    *)
(* over a folder and the order in which os.listdir gave its files.  A run  *)
(* is kept as the chunks in the order they reached create_faiss_db and the *)
(* ids that np.arange gave them.                                           *)
(***************************************************************************)
MaxRuns == 2

\* what one processor.main run over a listing hands to create_faiss_db
RunOf(folder, listing) ==
    LET text_chunks == split_text(extract_text_from_pdfs(listing))
        embeddings  == generate_embeddings(text_chunks)
    IN  [folder      |-> folder,
         listing     |-> listing,
         text_chunks |-> text_chunks,
         ids         |-> arange(Len(embeddings)),
         error       |-> CreateError(embeddings, "none")]

\* one more processor.main run
RunMain(folder, listing) ==
    /\ Len(runs) < MaxRuns
    /\ runs' = Append(runs, RunOf(folder, listing))
    /\ UNCHANGED <<pdfVars, split, crawler, webdiff, sitemap>>

InitOrder == Init

NextOrder ==
    \E folder \in SUBSET AllFiles : \E listing \in Listings(folder) :
      RunMain(folder, listing)

SpecOrder == InitOrder /\ [][NextOrder]_vars

\* C12: two build runs over the same corpus give the same id to the same
\* chunk, in whatever order the documents of the corpus were enumerated.
C12_SameIdsForSameCorpus ==
    \A r1, r2 \in 1..Len(runs) :
      runs[r1].folder = runs[r2].folder =>
        \A i \in 1..Len(runs[r1].text_chunks) :
          \A j \in 1..Len(runs[r2].text_chunks) :
            runs[r1].text_chunks[i] = runs[r2].text_chunks[j]
              => runs[r1].ids[i] = runs[r2].ids[j]

(***************************************************************************)
(* The splitter of split_text: RecursiveCharacterTextSplitter with its     *)
(* default separators, keep_separator = True, strip_whitespace = True and  *)
(* len as the length function.  A text is a sequence of characters; the    *)
(* chunk size and the overlap are arguments here, processor.py passes 512  *)
(* and 50.                                                                 *)
(***************************************************************************)
Whitespace == {" ", "\n"}

RECURSIVE LStrip(_)
LStrip(s) == IF s # <<>> /\ Head(s) \in Whitespace THEN LStrip(Tail(s)) ELSE s

RECURSIVE RStrip(_)
RStrip(s) ==
    IF s # <<>> /\ s[Len(s)] \in Whitespace
    THEN RStrip(SubSeq(s, 1, Len(s) - 1))
    ELSE s

\* str.strip()
Strip(s) == RStrip(LStrip(s))

\* ["\n\n", "\n", " ", ""]
Separators == << <<"\n", "\n">>, <<"\n">>, <<" ">>, <<>> >>

OccursAt(text, sep, i) ==
    /\ i + Len(sep) - 1 <= Len(text)
    /\ SubSeq(text, i, i + Len(sep) - 1) = sep

\* re.search(re.escape(sep), text)
Contains(text, sep) == \E i \in 1..Len(text) : OccursAt(text, sep, i)

\* re.split with the separator captured, each separator then joined to the
\* piece that follows it: cur is the piece being read
RECURSIVE SplitScan(_, _, _, _)
SplitScan(text, sep, i, cur) ==
    IF i > Len(text) THEN <<cur>>
    ELSE IF OccursAt(text, sep, i)
         THEN <<cur>> \o SplitScan(text, sep, i + Len(sep), sep)
         ELSE SplitScan(text, sep, i + 1, Append(cur, text[i]))

\* _split_text_with_regex(text, separator, keep_separator=True)
SplitWithRegex(text, sep) ==
    IF sep = <<>>
    THEN [i \in 1..Len(text) |-> <<text[i]>>]
    ELSE SelectSeq(SplitScan(text, sep, 1, <<>>), LAMBDA piece : piece # <<>>)

RECURSIVE Concat(_)
Concat(docs) == IF docs = <<>> THEN <<>> ELSE Head(docs) \o Concat(Tail(docs))

\* _join_docs with separator "": the stripped text, <<>> standing for None
JoinDocs(docs) == Strip(Concat(docs))

\* the sequence holding doc, or nothing when _join_docs gave None
DocIfAny(docs) == IF JoinDocs(docs) = <<>> THEN <<>> ELSE <<JoinDocs(docs)>>

\* _merge_splits, the popping loop after a chunk was emitted: pieces leave
\* the front of current_doc while more than chunk_overlap characters are
\* kept or the next piece d would not fit
RECURSIVE PopOverlap(_, _, _, _, _)
PopOverlap(current_doc, total, len, chunk_size, chunk_overlap) ==
    IF \/ total > chunk_overlap
       \/ total + len > chunk_size /\ total > 0
    THEN PopOverlap(Tail(current_doc), total - Len(Head(current_doc)),
                    len, chunk_size, chunk_overlap)
    ELSE [current_doc |-> current_doc, total |-> total]

\* _merge_splits, the loop over the pieces from piece i on (the separator
\* between pieces is "", of length 0, since the separators are kept)
RECURSIVE MergeLoop(_, _, _, _, _, _, _)
MergeLoop(splits, i, docs, current_doc, total, chunk_size, chunk_overlap) ==
    IF i > Len(splits) THEN docs \o DocIfAny(current_doc)
    ELSE LET d     == splits[i]
             flush == total + Len(d) > chunk_size /\ current_doc # <<>>
             kept  == IF flush
                      THEN PopOverlap(current_doc, total, Len(d),
                                      chunk_size, chunk_overlap)
                      ELSE [current_doc |-> current_doc, total |-> total]
         IN  MergeLoop(splits, i + 1,
                       IF flush THEN docs \o DocIfAny(current_doc) ELSE docs,
                       Append(kept.current_doc, d), kept.total + Len(d),
                       chunk_size, chunk_overlap)

MergeSplits(splits, chunk_size, chunk_overlap) ==
    MergeLoop(splits, 1, <<>>, <<>>, 0, chunk_size, chunk_overlap)

\* the position in separators of the separator _split_text works with:
\* the first that is "" or occurs in the text, the last when none does
RECURSIVE PickSeparator(_, _, _)
PickSeparator(text, separators, i) ==
    IF i >= Len(separators) THEN Len(separators)
    ELSE IF separators[i] = <<>> \/ Contains(text, separators[i]) THEN i
         ELSE PickSeparator(text, separators, i + 1)

\* new_separators: what follows a separator found in the text
NewSeparators(text, separators) ==
    LET k == PickSeparator(text, separators, 1)
    IN  IF separators[k] # <<>> /\ Contains(text, separators[k])
        THEN SubSeq(separators, k + 1, Len(separators))
        ELSE <<>>

\* variant: every piece is merged as it is, none is split further
FitsChunkAlways(s, chunk_size) == TRUE

\* a piece short enough to be merged with its neighbours
FitsChunk(s, chunk_size) == Len(s) < chunk_size

\* RecursiveCharacterTextSplitter._split_text and its loop over the pieces
RECURSIVE SplitTextRec(_, _, _, _)
RECURSIVE SplitsLoop(_, _, _, _, _, _, _)
SplitsLoop(splits, i, good_splits, final_chunks, new_separators, chunk_size, chunk_overlap) ==
    LET merged == IF good_splits = <<>> THEN <<>>
                  ELSE MergeSplits(good_splits, chunk_size, chunk_overlap)
    IN  IF i > Len(splits) THEN final_chunks \o merged
        ELSE IF FitsChunk(splits[i], chunk_size)
             THEN SplitsLoop(splits, i + 1, Append(good_splits, splits[i]),
                             final_chunks, new_separators,
                             chunk_size, chunk_overlap)
             ELSE SplitsLoop(splits, i + 1, <<>>,
                             final_chunks \o merged \o
                               (IF new_separators = <<>> THEN <<splits[i]>>
                                ELSE SplitTextRec(splits[i], new_separators,
                                                  chunk_size, chunk_overlap)),
                             new_separators, chunk_size, chunk_overlap)

SplitTextRec(text, separators, chunk_size, chunk_overlap) ==
    SplitsLoop(SplitWithRegex(text,
                              separators[PickSeparator(text, separators, 1)]),
               1, <<>>, <<>>, NewSeparators(text, separators),
               chunk_size, chunk_overlap)

\* splitter.split_text(text) of a splitter made with these sizes
SplitterSplit(text, chunk_size, chunk_overlap) ==
    SplitTextRec(text, Separators, chunk_size, chunk_overlap)

(***************************************************************************)
(* split_text over units whose texts are character sequences.  One call is *)
(* the state: its arguments (with the sizes the splitter was made with)    *)
(* and, once called, its output.                                           *)
(***************************************************************************)
MaxChunkSize == 4
MaxTextLen == 5
MaxUnitLen == 2

Chars == {"a", "b", " ", "\n"}

TextsUpTo(n) == UNION {[1..k -> Chars] : k \in 0..n}

\* variant: the chunk keeps the source of its unit and not the page
ChunkRecordPageLost(chunk, item) ==
    [text |-> chunk, metadata |-> [item.metadata EXCEPT !.page = 1]]

\* {"text": chunk, "metadata": item["metadata"]}
ChunkRecord(chunk, item) == [text |-> chunk, metadata |-> item.metadata]

\* the inner loop of split_text: the chunks of one unit
ChunksOfItem(item, chunk_size, chunk_overlap) ==
    LET chunks == SplitterSplit(item.text, chunk_size, chunk_overlap)
    IN  [i \in 1..Len(chunks) |-> ChunkRecord(chunks[i], item)]

\* split_text(text_data), the splitter made with the given sizes
RECURSIVE SplitTextSized(_, _, _)
SplitTextSized(text_data, chunk_size, chunk_overlap) ==
    IF text_data = <<>> THEN <<>>
    ELSE ChunksOfItem(Head(text_data), chunk_size, chunk_overlap)
           \o SplitTextSized(Tail(text_data), chunk_size, chunk_overlap)

\* calls of split_text: no unit, one unit of a longer text, or two units
\* (page 2 of x.pdf, then page 1 of y.pdf) of short texts
SplitInputs ==
    {<<>>}
    \cup {<<[text |-> t, metadata |-> [source |-> FileX, page |-> 1]]>> :
            t \in TextsUpTo(MaxTextLen)}
    \cup {<<[text |-> t1, metadata |-> [source |-> FileX, page |-> 2]],
            [text |-> t2, metadata |-> [source |-> FileY, page |-> 1]]>> :
            t1, t2 \in TextsUpTo(MaxUnitLen)}

\* chunk_size > 0 and 0 <= chunk_overlap < chunk_size
SplitSizes ==
    {sz \in (1..MaxChunkSize) \X (0..MaxChunkSize) : sz[2] < sz[1]}

InitSplit ==
    /\ PdfInit
    /\ runs = NoRuns
    /\ crawler = NoCrawler
    /\ webdiff = NoWebdiff
    /\ sitemap = NoSitemap
    /\ \E text_data \in SplitInputs : \E sz \in SplitSizes :
         split = [called |-> FALSE, text_data |-> text_data,
                  chunk_size |-> sz[1], chunk_overlap |-> sz[2],
                  chunked_data |-> <<>>]

\* the split_text call
SplitText ==
    /\ ~split.called
    /\ split' = [split EXCEPT
                   !.called = TRUE,
                   !.chunked_data = SplitTextSized(split.text_data,
                                                   split.chunk_size,
                                                   split.chunk_overlap)]
    /\ UNCHANGED <<pdfVars, runs, crawler, webdiff, sitemap>>

NextSplit == SplitText

SpecSplit == InitSplit /\ [][NextSplit]_vars

\* the texts of the chunks that owner gives to unit u, in output order
RECURSIVE TextsOwned(_, _, _, _)
TextsOwned(out, owner, u, i) ==
    IF i > Len(out) THEN <<>>
    ELSE (IF owner[i] = u THEN <<out[i].text>> ELSE <<>>)
           \o TextsOwned(out, owner, u, i + 1)

\* the chunks from chunk i on occur in the text one after the other: each
\* starts where the one before it starts, or later
RECURSIVE ReadFrom(_, _, _, _)
ReadFrom(text, chunks, i, from) ==
    \/ i > Len(chunks)
    \/ \E p \in from..Len(text) :
         /\ OccursAt(text, chunks[i], p)
         /\ ReadFrom(text, chunks, i + 1, p)

\* C13: every chunk that split_text gives belongs to one unit of its
\* input: it is a piece of that unit's text and carries that unit's source
\* and page; the chunks of a unit come in reading order, and the chunks of
\* an earlier unit come before those of a later one.
C13_ChunksFollowUnits ==
    split.called =>
      \E owner \in [1..Len(split.chunked_data) -> 1..Len(split.text_data)] :
        /\ \A i \in 1..Len(split.chunked_data) :
             split.chunked_data[i].metadata
               = split.text_data[owner[i]].metadata
        /\ \A i, j \in 1..Len(split.chunked_data) :
             i < j => owner[i] <= owner[j]
        /\ \A u \in 1..Len(split.text_data) :
             ReadFrom(split.text_data[u].text,
                      TextsOwned(split.chunked_data, owner, u, 1), 1, 1)

\* two units were split, each into two chunks
C13_Witness ==
    /\ split.called
    /\ Len(split.text_data) = 2
    /\ Len(split.chunked_data) = 4
    /\ split.chunked_data[2].metadata = split.text_data[1].metadata
    /\ split.chunked_data[3].metadata = split.text_data[2].metadata
    /\ split.chunked_data[1].text # split.chunked_data[2].text

\* C14: every chunk of the splitter is non-empty and at most chunk_size
\* characters long, whatever the text and the sizes, also where a piece
\* longer than chunk_size had to be split further down to single
\* characters.
C14_ChunkLengths ==
    split.called =>
      \A i \in 1..Len(split.chunked_data) :
        Len(split.chunked_data[i].text) \in 1..split.chunk_size

\* a text without any separator, longer than two chunks, was cut
C14_Witness ==
    /\ split.called
    /\ split.chunk_size = 2 /\ split.chunk_overlap = 0
    /\ Len(split.text_data) = 1
    /\ split.text_data[1].text = <<"a", "b", "a", "b", "a">>
    /\ Len(split.chunked_data) = 3

\* C15: of two adjacent chunks of one unit, the second starts with the
\* last min(chunk_overlap, len) characters of the first.
C15_OverlapRepeats ==
    split.called =>
      \A i \in 1..(Len(split.chunked_data) - 1) :
        LET c1 == split.chunked_data[i].text
            c2 == split.chunked_data[i + 1].text
            m  == Min(split.chunk_overlap, Len(c1))
        IN  split.chunked_data[i].metadata = split.chunked_data[i + 1].metadata
              => /\ Len(c2) >= m
                 /\ SubSeq(c1, Len(c1) - m + 1, Len(c1)) = SubSeq(c2, 1, m)

(***************************************************************************)
(* common/crawler.py: one AsyncWebCrawler.  Sessions are numbered in the   *)
(* order they are made, 0 standing for None; opened is the number of       *)
(* sessions made so far, closed the set of sessions closed, requests the   *)
(* GET requests issued (session and url), history the calls made with      *)
(* what each gave back.                                                    *)
(***************************************************************************)
MaxCalls == 5

Urls == {"url1", "url2"}

\* what the server does with a GET: a page with text, a page without
\* text, or an error (status >= 400, connection error, timeout)
Responses == {"page", "empty_page", "http_error"}

\* CrawlResult(markdown=..., html=...) for a response
CrawlResult(response) ==
    CASE response = "page"       -> [markdown |-> "text", html |-> "<p>text</p>"]
      [] response = "empty_page" -> [markdown |-> "", html |-> "<p></p>"]
      [] OTHER                   -> [markdown |-> "", html |-> ""]

Called(op, outcome, result) == [op |-> op, outcome |-> outcome, result |-> result]

NoResult == [markdown |-> "", html |-> ""]

\* variant: __aenter__ makes a new session on every call
aenterReplacing ==
    crawler' = [crawler EXCEPT
                  !.session = crawler.opened + 1,
                  !.opened = crawler.opened + 1,
                  !.history = Append(@, Called("aenter", "return", NoResult))]

\* __aenter__
aenter ==
    IF crawler.session = 0
    THEN crawler' = [crawler EXCEPT
                       !.session = crawler.opened + 1,
                       !.opened = crawler.opened + 1,
                       !.history = Append(@, Called("aenter", "return", NoResult))]
    ELSE crawler' = [crawler EXCEPT
                       !.history = Append(@, Called("aenter", "return", NoResult))]

\* __aexit__
aexit ==
    IF crawler.session # 0
    THEN crawler' = [crawler EXCEPT
                       !.closed = @ \cup {crawler.session},
                       !.session = 0,
                       !.history = Append(@, Called("aexit", "return", NoResult))]
    ELSE crawler' = [crawler EXCEPT
                       !.history = Append(@, Called("aexit", "return", NoResult))]

\* arun(url), the server answering the GET, if one is made, with response
arun(url, response) ==
    IF crawler.session = 0
    THEN crawler' = [crawler EXCEPT
                       !.history = Append(@, Called("arun", "RuntimeError", NoResult))]
    ELSE crawler' = [crawler EXCEPT
                       !.requests = Append(@, [session |-> crawler.session,
                                               url |-> url]),
                       !.history = Append(@, Called("arun", "return",
                                                    CrawlResult(response)))]

InitCrawler ==
    /\ PdfInit
    /\ runs = NoRuns
    /\ split = NoSplit
    /\ crawler = NoCrawler
    /\ webdiff = NoWebdiff
    /\ sitemap = NoSitemap

AEnter ==
    /\ Len(crawler.history) < MaxCalls
    /\ aenter
    /\ UNCHANGED <<pdfVars, runs, split, webdiff, sitemap>>

AExit ==
    /\ Len(crawler.history) < MaxCalls
    /\ aexit
    /\ UNCHANGED <<pdfVars, runs, split, webdiff, sitemap>>

ARun(url, response) ==
    /\ Len(crawler.history) < MaxCalls
    /\ arun(url, response)
    /\ UNCHANGED <<pdfVars, runs, split, webdiff, sitemap>>

NextCrawler ==
    \/ AEnter
    \/ AExit
    \/ \E url \in Urls : \E response \in Responses : ARun(url, response)

SpecCrawler == InitCrawler /\ [][NextCrawler]_vars

\* the call made by the step
LastCall == crawler'.history[Len(crawler'.history)]

\* C19: in every sequence of __aenter__, arun and __aexit__ calls on one
\* crawler, a request is issued only by an arun made while a session is
\* open, and on that session; an arun without an open session raises
\* RuntimeError and issues no request; __aenter__ leaves an open session
\* in place; after __aexit__ the session that was open is closed and the
\* crawler has none.
C19_SessionLifecycle ==
    [][/\ crawler'.requests # crawler.requests =>
            /\ LastCall.op = "arun"
            /\ crawler.session # 0
            /\ crawler.session \notin crawler.closed
            /\ crawler'.session = crawler.session
            /\ Len(crawler'.requests) = Len(crawler.requests) + 1
            /\ crawler'.requests[Len(crawler'.requests)].session
                 = crawler.session
       /\ (LastCall.op = "arun" /\ crawler.session = 0) =>
            /\ LastCall.outcome = "RuntimeError"
            /\ crawler'.requests = crawler.requests
            /\ crawler'.session = 0
       /\ (LastCall.op = "arun" /\ crawler.session # 0) =>
            LastCall.outcome = "return"
       /\ LastCall.op = "aenter" =>
            /\ crawler'.session # 0
            /\ crawler'.session \notin crawler'.closed
            /\ crawler.session # 0 => crawler'.session = crawler.session
       /\ LastCall.op = "aexit" =>
            /\ crawler'.session = 0
            /\ crawler.session # 0 => crawler.session \in crawler'.closed]_vars

\* arun raised without a session, then ran in a session that a second
\* __aenter__ had left in place, and the session was closed
C19_Witness ==
    /\ Len(crawler.history) = 5
    /\ crawler.history[1].op = "arun"
    /\ crawler.history[1].outcome = "RuntimeError"
    /\ crawler.history[2].op = "aenter"
    /\ crawler.history[3].op = "aenter"
    /\ crawler.history[4].op = "arun"
    /\ crawler.history[4].result.markdown = "text"
    /\ crawler.history[5].op = "aexit"
    /\ crawler.requests = <<[session |-> 1, url |-> "url1"]>>
    /\ crawler.session = 0
    /\ crawler.closed = {1}

(***************************************************************************)
(* modules/webdiff/diff.py: one run of the main coroutine.  pc is where    *)
(* the run stands, index the position in URLS_TO_CRAWL of the next url,    *)
(* outcomes what became of each url handled, files the files written, ret  *)
(* the value returned (-1 while nothing was returned).                     *)
(***************************************************************************)
\* URLS_TO_CRAWL
UrlsToCrawl == <<"url1", "url2">>

\* the step of the save that raises, if any: output_file.write_text, the
\* diff folder and diff_file.write_text, or the check and report of
\* differences
SaveFaults == {"none", "output_write", "diff_write", "report"}

\* what the body of the for loop makes of a url, given the result of arun
\* and the step of the save that raises
OutcomeOf(result, fault) ==
    IF result.markdown = "" THEN "no_content"
    ELSE CASE fault = "none"         -> "saved"
           [] fault = "output_write" -> "io_error"
           [] fault = "diff_write"   -> "io_error"
           [] OTHER                  -> "error"

\* the files the body of the for loop has written when it ends
FilesOf(url, result, fault) ==
    IF result.markdown = "" \/ fault = "output_write" THEN {}
    ELSE IF fault = "diff_write" THEN {<<"output", url>>}
         ELSE {<<"output", url>>, <<"diff", url>>}

\* the three mkdir calls; one of them may raise, and main returns 1
MakeDirs(ok) ==
    /\ webdiff.pc = "start"
    /\ webdiff' = IF ok THEN [webdiff EXCEPT !.pc = "dirs"]
                  ELSE [webdiff EXCEPT !.pc = "done", !.ret = 1]
    /\ UNCHANGED <<pdfVars, runs, split, crawler, sitemap>>

\* async with AsyncWebCrawler() as crawler
EnterCrawler ==
    /\ webdiff.pc = "dirs"
    /\ aenter
    /\ webdiff' = [webdiff EXCEPT !.pc = "crawling"]
    /\ UNCHANGED <<pdfVars, runs, split, sitemap>>

\* one turn of the for loop: arun, then the save when there is markdown;
\* whatever is raised in the turn is caught and printed
CrawlUrl(response, fault) ==
    /\ webdiff.pc = "crawling"
    /\ webdiff.index <= Len(UrlsToCrawl)
    /\ arun(UrlsToCrawl[webdiff.index], response)
    /\ LET url    == UrlsToCrawl[webdiff.index]
           result == crawler'.history[Len(crawler'.history)].result
       IN  webdiff' = [webdiff EXCEPT
                         !.index = @ + 1,
                         !.outcomes = Append(@, OutcomeOf(result, fault)),
                         !.files = @ \cup FilesOf(url, result, fault)]
    /\ UNCHANGED <<pdfVars, runs, split, sitemap>>

\* the end of the async with block
ExitCrawler ==
    /\ webdiff.pc = "crawling"
    /\ webdiff.index > Len(UrlsToCrawl)
    /\ aexit
    /\ webdiff' = [webdiff EXCEPT !.pc = "exited"]
    /\ UNCHANGED <<pdfVars, runs, split, sitemap>>

\* return 0
Return ==
    /\ webdiff.pc = "exited"
    /\ webdiff' = [webdiff EXCEPT !.pc = "done", !.ret = 0]
    /\ UNCHANGED <<pdfVars, runs, split, crawler, sitemap>>

InitWebdiff == InitCrawler

NextWebdiff ==
    \/ \E ok \in BOOLEAN : MakeDirs(ok)
    \/ EnterCrawler
    \/ \E response \in Responses : \E fault \in SaveFaults :
         CrawlUrl(response, fault)
    \/ ExitCrawler
    \/ Return

SpecWebdiff == InitWebdiff /\ [][NextWebdiff]_vars

\* C16: main returns 0 only when every configured url was crawled and
\* saved, and a run in which a crawl or a save failed returns 1.
C16_ReturnCode ==
    /\ webdiff.ret = 0 =>
         /\ Len(webdiff.outcomes) = Len(UrlsToCrawl)
         /\ \A i \in 1..Len(webdiff.outcomes) : webdiff.outcomes[i] = "saved"
    /\ (webdiff.pc = "done"
          /\ \E i \in 1..Len(webdiff.outcomes) : webdiff.outcomes[i] # "saved")
         => webdiff.ret = 1

(***************************************************************************)
(* common/sitemap.py: one SitemapCrawler with the default paths and one    *)
(* get_sitemap_urls call.  The site is what the server holds at each       *)
(* sitemap location: nothing (the GET fails), a document that is not XML,  *)
(* a urlset with its <loc> entries, or a sitemap index with the locations  *)
(* of its sub-sitemaps; robots is the list of Sitemap lines of robots.txt. *)
(***************************************************************************)
\* DEFAULT_SITEMAP_PATHS
DefaultSitemapPaths ==
    <<"/sitemap.xml", "/sitemap_index.xml", "/sitemaps/sitemap.xml",
      "/wp-sitemap.xml">>

Url(path) == [scheme |-> "https", netloc |-> "site", path |-> path]

\* a <loc> without scheme and host
RelativeUrl == [scheme |-> "", netloc |-> "", path |-> "/rel"]

Missing == [kind |-> "missing", locs |-> {}]
BadXml == [kind |-> "bad_xml", locs |-> {}]
UrlSet(locs) == [kind |-> "urlset", locs |-> locs]
SitemapIndex(locs) == [kind |-> "index", locs |-> locs]

Locations ==
    {DefaultSitemapPaths[i] : i \in 1..Len(DefaultSitemapPaths)}
      \cup {"/news-sitemap.xml", "/sub-sitemap.xml"}

\* the sites a crawler is run on
Sites ==
    {[loc \in Locations |->
        CASE loc = "/sitemap.xml"          -> d1
          [] loc = "/sitemap_index.xml"    -> d2
          [] loc = "/sitemaps/sitemap.xml" -> d3
          [] loc = "/news-sitemap.xml"     -> d4
          [] loc = "/sub-sitemap.xml"      -> d5
          [] OTHER                         -> Missing] :
       d1 \in {Missing, UrlSet({Url("/a")}), SitemapIndex({"/sub-sitemap.xml"})},
       d2 \in {Missing, BadXml, UrlSet({Url("/b"), RelativeUrl})},
       d3 \in {Missing, UrlSet({Url("/c")})},
       d4 \in {Missing, UrlSet({Url("/d")})},
       d5 \in {Missing, UrlSet({Url("/e")})}}

\* the Sitemap lines of robots.txt (none when robots.txt cannot be read)
RobotsFiles == {<<>>, <<"/news-sitemap.xml">>,
                <<"/sitemap_index.xml", "/news-sitemap.xml">>}

\* _is_valid_url
IsValidUrl(url) == url.scheme # "" /\ url.netloc # ""

\* _extract_urls_from_sitemap
ExtractUrlsFromSitemap(doc) == {loc \in doc.locs : IsValidUrl(loc)}

\* _process_sitemap with _process_sitemap_index: the urls, or raised when
\* the document cannot be parsed (a failed GET gives the empty set, and a
\* sub-sitemap that raises is skipped)
RECURSIVE ProcessSitemap(_, _)
ProcessSitemap(site, loc) ==
    CASE site[loc].kind = "missing" -> [raised |-> FALSE, urls |-> {}]
      [] site[loc].kind = "bad_xml" -> [raised |-> TRUE, urls |-> {}]
      [] site[loc].kind = "index" ->
           [raised |-> FALSE,
            urls |-> UNION {ProcessSitemap(site, sub).urls : sub \in site[loc].locs}]
      [] OTHER -> [raised |-> FALSE, urls |-> ExtractUrlsFromSitemap(site[loc])]

\* _add_robots_sitemaps: the paths of robots.txt not yet in self.paths are
\* put at their end
RECURSIVE AddRobotsSitemaps(_, _)
AddRobotsSitemaps(paths, sitemap_urls) ==
    IF sitemap_urls = <<>> THEN paths
    ELSE AddRobotsSitemaps(
           IF \E i \in 1..Len(paths) : paths[i] = Head(sitemap_urls)
           THEN paths ELSE Append(paths, Head(sitemap_urls)),
           Tail(sitemap_urls))

\* the for loop of get_sitemap_urls from path i on: the urls of the first
\* path that gives any are returned; found_urls, returned when no path
\* gives any, is empty
RECURSIVE TryPaths(_, _, _)
TryPaths(site, paths, i) ==
    IF i > Len(paths) THEN {}
    ELSE IF ProcessSitemap(site, paths[i]).urls # {}
         THEN ProcessSitemap(site, paths[i]).urls
         ELSE TryPaths(site, paths, i + 1)

InitSitemap ==
    /\ PdfInit
    /\ runs = NoRuns
    /\ split = NoSplit
    /\ crawler = NoCrawler
    /\ webdiff = NoWebdiff
    /\ \E site \in Sites : \E robots \in RobotsFiles :
         sitemap = [site |-> site, robots |-> robots, called |-> FALSE,
                    paths |-> DefaultSitemapPaths, returned |-> {}]

\* get_sitemap_urls
GetSitemapUrls ==
    /\ ~sitemap.called
    /\ LET paths == AddRobotsSitemaps(sitemap.paths, sitemap.robots)
       IN  sitemap' = [sitemap EXCEPT
                         !.called = TRUE,
                         !.paths = paths,
                         !.returned = TryPaths(sitemap.site, paths, 1)]
    /\ UNCHANGED <<pdfVars, runs, split, crawler, webdiff>>

NextSitemap == GetSitemapUrls

SpecSitemap == InitSitemap /\ [][NextSitemap]_vars

\* C17: get_sitemap_urls returns every valid url found in any of the
\* sitemaps at its paths, those of robots.txt and the configured ones.
C17_CollectsAllUrls ==
    sitemap.called =>
      \A i \in 1..Len(sitemap.paths) :
        ProcessSitemap(sitemap.site, sitemap.paths[i]).urls
          \subseteq sitemap.returned

\* C18: every result of query_faiss is the chunk of an entry that the
\* search matched: when max_results is above the number of stored vectors,
\* the padding entries (id -1) give no result, whatever min_score is.
C18_NoResultFromPadding ==
    lastQuery.outcome = "return" =>
      /\ Len(lastQuery.results)
           <= Cardinality({i \in 1..Len(lastQuery.found.I) :
                            lastQuery.found.I[i] >= 0})
      /\ \A r \in 1..Len(lastQuery.results) :
           \E i \in 1..Len(lastQuery.found.I) :
             /\ lastQuery.found.I[i] >= 0
             /\ lastQuery.found.I[i] < Len(lastQuery.text_chunks)
             /\ lastQuery.results[r].score = ScoreOf(lastQuery.found.D[i])
             /\ lastQuery.results[r].text
                  = lastQuery.text_chunks[lastQuery.found.I[i] + 1].text
             /\ lastQuery.results[r].metadata
                  = lastQuery.text_chunks[lastQuery.found.I[i] + 1].metadata

====
